---- MODULE Spec2Model ----
(***************************************************************************)
(* Model of src/main.py (Meteor Impact, PyQt6): the ring-map view          *)
(* RingsView (zoom / pan / data state, event handlers, redraw) and the     *)
(* parameter path of MainWindow that feeds the effects model.              *)
(*                                                                         *)
(* Python floats are modelled as decimal floating-point numbers <<m, e>>   *)
(* (value m * 10^e, Digits significant digits, round to nearest).  Pixel   *)
(* positions of the pointer and the pan offset only ever hold integral     *)
(* values and are kept as integers.  The zoom factor is kept in fixed      *)
(* point, in units of 1/ZoomScale, each product rounded to nearest.        *)
(***************************************************************************)
EXTENDS Integers, Sequences, FiniteSets, TLC

\* ------------------------------------------------------------------ bounds
Digits == 4          \* significant decimal digits of a modelled float
ZoomScale == 100     \* fixed-point units per 1.0 of zoom
MaxPan == 4          \* |pan_dx|, |pan_dy| explored up to this many pixels
ZoomWindow == 2      \* Spec explores zoom within [1/ZoomWindow, ZoomWindow]
MaxGridLines == 40   \* fuel of one grid-line loop of redraw
MaxEdited == 1       \* SpecMain explores this many of the density, angle,
                     \* latitude and longitude boxes away from their defaults

\* ------------------------------------------------- decimal floating point
Base == 10^Digits
BaseLo == 10^(Digits-1)

Abs(i) == IF i < 0 THEN -i ELSE i
Sgn(i) == IF i < 0 THEN -1 ELSE 1
IMin(a, b) == IF a < b THEN a ELSE b
IMax(a, b) == IF a < b THEN b ELSE a

\* m / d rounded to the nearest integer (d > 0), ties away from zero
RoundDiv(m, d) == Sgn(m) * ((2*Abs(m) + d) \div (2*d))

\* number of decimal digits of a natural number a >= 1
NDigits(a) ==
  IF a < 100000
  THEN IF a < 100 THEN (IF a < 10 THEN 1 ELSE 2)
       ELSE IF a < 1000 THEN 3 ELSE IF a < 10000 THEN 4 ELSE 5
  ELSE IF a < 10000000 THEN (IF a < 1000000 THEN 6 ELSE 7)
       ELSE IF a < 100000000 THEN 8 ELSE IF a < 1000000000 THEN 9 ELSE 10

\* the float nearest to m * 10^e: the mantissa cut to Digits digits
Norm(m, e) ==
  IF m = 0 THEN <<0, 0>>
  ELSE LET nd == NDigits(Abs(m))
       IN  IF nd > Digits
           THEN LET q == RoundDiv(m, 10^(nd - Digits))
                IN  IF Abs(q) = Base THEN <<Sgn(m) * BaseLo, e + nd - Digits + 1>>
                    ELSE <<q, e + nd - Digits>>
           ELSE <<m * 10^(Digits - nd), e - (Digits - nd)>>

FInt(i) == Norm(i, 0)
FNeg(a) == <<-a[1], a[2]>>
FAbs(a) == <<Abs(a[1]), a[2]>>
FMul(a, b) == Norm(a[1]*b[1], a[2]+b[2])
FDiv(a, b) == Norm(Sgn(b[1]) * RoundDiv(a[1]*Base, Abs(b[1])), a[2]-b[2]-Digits)
FAdd(a, b) ==
  IF a[1] = 0 THEN b
  ELSE IF b[1] = 0 THEN a
  ELSE IF a[2] >= b[2]
       THEN IF a[2]-b[2] > Digits THEN a
            ELSE Norm(a[1]*(10^(a[2]-b[2])) + b[1], b[2])
       ELSE IF b[2]-a[2] > Digits THEN b
            ELSE Norm(b[1]*(10^(b[2]-a[2])) + a[1], a[2])
FSub(a, b) == FAdd(a, FNeg(b))
FLt(a, b) ==
  IF a[1] = 0 THEN b[1] > 0
  ELSE IF b[1] = 0 THEN a[1] < 0
  ELSE IF a[1] < 0 /\ b[1] > 0 THEN TRUE
  ELSE IF a[1] > 0 /\ b[1] < 0 THEN FALSE
  ELSE IF a[1] > 0 THEN (a[2] < b[2] \/ (a[2] = b[2] /\ a[1] < b[1]))
  ELSE (a[2] > b[2] \/ (a[2] = b[2] /\ a[1] < b[1]))
FLe(a, b) == ~FLt(b, a)
FMax(a, b) == IF FLt(a, b) THEN b ELSE a
FMin(a, b) == IF FLt(b, a) THEN b ELSE a
FPos(a) == a[1] > 0
FZero == <<0, 0>>
FOne == FInt(1)
\* math.floor of a float, as an integer
FFloor(a) ==
  IF a[2] >= 0 THEN a[1] * 10^a[2]
  ELSE IF -a[2] > Digits THEN (IF a[1] < 0 THEN -1 ELSE 0)
  ELSE a[1] \div (10^(-a[2]))
\* math.floor(math.log10(a)) for a > 0
FloorLog10(a) == a[2] + Digits - 1
\* 10 ** k as a float
Pow10(k) == <<BaseLo, k - Digits + 1>>
\* a float formatted with n decimals: the integer count of
\* 10^-n units it prints, rounded half to even on the magnitude, and its sign
FFormat(a, n) ==
  LET s == a[2] + n
      mag == Abs(a[1])
      q == IF s >= 0 THEN mag * 10^s
           ELSE IF -s > Digits THEN 0
           ELSE LET d == 10^(-s)
                    lo == mag \div d
                    r2 == 2 * (mag - lo*d)
                IN  IF r2 > d \/ (r2 = d /\ lo % 2 = 1) THEN lo + 1 ELSE lo
  IN  <<(IF a[1] < 0 THEN "-" ELSE "+"), q>>

\* ------------------------------------------------------- model inputs
\* dictionary keys of an effects result
RadiusKeys == {"light_blast_km", "moderate_blast_km", "severe_blast_km",
               "light_thermal_km", "severe_thermal_km"}
YieldKey == "effective_surface_yield_mt"
AllKeys == RadiusKeys \cup {YieldKey}
\* a key that the dict does not hold
Missing == <<>>
\* a float literal m * 10^e
FLit(m, e) == Norm(m, e)

\* an effects dict: r[k] is the value under key k, or Missing
MkEffects(y, sb, mb, lb, st, lt) ==
  [none |-> FALSE,
   r |-> [k \in AllKeys |->
            CASE k = YieldKey -> y
              [] k = "severe_blast_km" -> sb
              [] k = "moderate_blast_km" -> mb
              [] k = "light_blast_km" -> lb
              [] k = "severe_thermal_km" -> st
              [] OTHER -> lt]]
NoneEffects == [none |-> TRUE, r |-> [k \in AllKeys |-> Missing]]
EmptyDict == [none |-> FALSE, r |-> [k \in AllKeys |-> Missing]]

\* ------------------------------------------------------- float functions
\* round(a, n): a rounded to n decimals
FRound(a, n) ==
  IF a[2] >= -n THEN a
  ELSE LET f == FFormat(a, n)
       IN  Norm((IF f[1] = "-" THEN -1 ELSE 1) * f[2], -n)

FPi == FLit(3142, -3)
\* math.radians
FRadians(deg) == FDiv(FMul(deg, FPi), FLit(180, 0))
\* the element of a one-element set. Only({ e : x \in {v} }) is e with x
\* standing for the value of v, as after the assignment x = v: v is evaluated
\* once, before e
Only(S) == CHOOSE r \in S : TRUE

\* the next term of the sine series: t * x2 / n
SinTerm(t, x2, n) == FDiv(FMul(t, x2), FLit(n, 0))
\* math.sin for 0 <= x <= pi/2, by its series up to x^9
FSin(x) ==
  Only({ Only({ Only({ Only({
    FAdd(FSub(FAdd(FSub(x, t3), t5), t7), SinTerm(t7, x2, 72))
    : t7 \in {SinTerm(t5, x2, 42)} })
    : t5 \in {SinTerm(t3, x2, 20)} })
    : t3 \in {SinTerm(x, x2, 6)} })
    : x2 \in {FMul(x, x)} })

\* one Newton step towards the cube root of x from r
CbrtStep(x, r) ==
  FDiv(FAdd(FMul(FLit(2, 0), r), FDiv(x, FMul(r, r))), FLit(3, 0))
\* a ** (1/3) for a > 0: the exponent is split into a multiple of three and a
\* rest, the cube root of the part in [1, 1000) is found by Newton steps
FCbrt(a) ==
  LET E == a[2] + Digits - 1
      q == E \div 3
      x == <<a[1], a[2] - 3 * q>>
      r0 == IF FLt(x, FLit(8, 0)) THEN FLit(15, -1)
            ELSE IF FLt(x, FLit(64, 0)) THEN FLit(3, 0)
            ELSE IF FLt(x, FLit(216, 0)) THEN FLit(5, 0)
            ELSE FLit(8, 0)
  IN  Only({ Only({ Only({ Only({
        FMul(CbrtStep(x, r4), Pow10(q))
        : r4 \in {CbrtStep(x, r3)} })
        : r3 \in {CbrtStep(x, r2)} })
        : r2 \in {CbrtStep(x, r1)} })
        : r1 \in {CbrtStep(x, r0)} })

\* ----------------------------------------------------- physics / effects
volume_sphere(d_m) ==
  LET h == FDiv(d_m, FLit(2, 0))
  IN  FMul(FMul(FDiv(FLit(4, 0), FLit(3, 0)), FPi), FMul(FMul(h, h), h))
mass_from_diameter(d_m, rho) == FMul(rho, volume_sphere(d_m))
kinetic_energy_joules(m_kg, v_km_s) ==
  LET v == FMul(v_km_s, FLit(1000, 0))
  IN  FMul(FMul(FLit(5, -1), m_kg), FMul(v, v))
joules_to_megatons_tnt(E_j) == FDiv(E_j, FLit(4184, 12))
YieldFloor == FLit(1, -9)
\* surface_yield_mt without the cap of the factor at 1.0
surface_yield_mtNoCap(kinetic_mt, angle_deg) ==
  LET theta == FMax(FOne, FMin(FLit(90, 0), angle_deg))
      f == FAdd(FLit(55, -2), FMul(FLit(5, -1), FSin(FRadians(theta))))
  IN  FMax(FMul(kinetic_mt, f), YieldFloor)
\* surface_yield_mt without the 1e-9 floor
surface_yield_mtNoFloor(kinetic_mt, angle_deg) ==
  LET theta == FMax(FOne, FMin(FLit(90, 0), angle_deg))
      f == FAdd(FLit(55, -2), FMul(FLit(5, -1), FSin(FRadians(theta))))
  IN  FMul(kinetic_mt, FMin(f, FOne))
surface_yield_mt(kinetic_mt, angle_deg) ==
  LET theta == FMax(FOne, FMin(FLit(90, 0), angle_deg))
      f == FAdd(FLit(55, -2), FMul(FLit(5, -1), FSin(FRadians(theta))))
  IN  FMax(FMul(kinetic_mt, FMin(f, FOne)), YieldFloor)
\* scaled_radius_km that adds k to the cube root instead of multiplying by it
scaled_radius_kmAdds(yield_mt, k) == FAdd(k, FCbrt(FMax(yield_mt, FLit(1, -12))))
scaled_radius_km(yield_mt, k) == FMul(k, FCbrt(FMax(yield_mt, FLit(1, -12))))
impact_effects(yield_mt_kinetic, angle_deg) ==
  Only({ MkEffects(Y,
                   scaled_radius_km(Y, FLit(11, -1)),
                   scaled_radius_km(Y, FLit(22, -1)),
                   scaled_radius_km(Y, FLit(38, -1)),
                   scaled_radius_km(Y, FLit(16, -1)),
                   scaled_radius_km(Y, FLit(45, -1)))
         : Y \in {surface_yield_mt(yield_mt_kinetic, angle_deg)} })
classify_size(d_m) ==
  IF FLt(d_m, FLit(10, 0)) THEN "<10m"
  ELSE IF FLt(d_m, FLit(50, 0)) THEN "10-50m"
  ELSE IF FLt(d_m, FLit(140, 0)) THEN "50-140m"
  ELSE IF FLt(d_m, FLit(300, 0)) THEN "140-300m"
  ELSE IF FLt(d_m, FLit(1000, 0)) THEN "300m-1km"
  ELSE ">1km"
guess_event_type(d_m, angle_deg) ==
  IF FLt(d_m, FLit(60, 0)) /\ FLt(angle_deg, FLit(40, 0)) THEN "airburst"
  ELSE IF FLt(d_m, FLit(30, 0)) THEN "airburst"
  ELSE "ground"

\* result sets pushed into the view: the empty dict, None, a dict holding
\* only the yield, all radii zero, a result as impact_effects orders it,
\* radii out of order with one negative, one zero and one missing, zero and
\* negative radii mixed, all radii negative
EffectsInputs ==
  { EmptyDict,
    NoneEffects,
    MkEffects(FLit(5, 0), Missing, Missing, Missing, Missing, Missing),
    MkEffects(FLit(1, -9), FZero, FZero, FZero, FZero, FZero),
    MkEffects(FLit(8, 0), FLit(22, -1), FLit(44, -1), FLit(76, -1), FLit(32, -1), FLit(9, 0)),
    MkEffects(FLit(8, 0), FLit(30, 0), FLit(-5, 0), FZero, FLit(12, 0), Missing),
    MkEffects(FLit(1, 0), FLit(-2, 0), FZero, Missing, FLit(-1, 0), FZero),
    MkEffects(FLit(1, 0), FLit(-2, 0), FLit(-3, 0), FLit(-1, 0), FLit(-5, 0), FLit(-4, 0)) }

\* centers pushed into the view (degrees)
Centers == { <<FZero, FZero>>, <<FLit(5045, -2), FLit(3052, -2)>> }
\* viewport sizes (pixels): without area, one pixel, wide, tall
ViewportSizes == { <<0, 300>>, <<300, 0>>, <<1, 1>>, <<400, 300>>, <<300, 500>> }
\* pointer positions (pixels)
Positions == { <<0, 0>>, <<2, 1>> }
Buttons == {"left", "right"}
\* angleDelta().y() of a wheel event
WheelDeltas == {-120, 0, 120}

\* ------------------------------------------------------ RingsView: redraw
\* bool(self.effects): neither None nor an empty dict
Truthy(eff) == ~eff.none /\ \E k \in AllKeys : eff.r[k] # Missing
\* dict.get(k, default)
EffGet(eff, k, default) == IF eff.r[k] = Missing THEN default ELSE eff.r[k]
\* max of a non-empty set of floats
FMaxSet(S) == CHOOSE v \in S : \A w \in S : FLe(w, v)

\* Rmax_km as the largest of the five values, zeros kept, with no default
RmaxKmOfAllValues(eff) ==
  IF ~Truthy(eff) THEN FOne
  ELSE FMaxSet({ EffGet(eff, k, FZero) : k \in RadiusKeys })

\* Rmax_km of redraw: 1.0, or the largest of the radii that are truthy
RmaxKm(eff) ==
  IF ~Truthy(eff) THEN FOne
  ELSE LET vals == { EffGet(eff, k, FZero) : k \in RadiusKeys }
           kept == { v \in vals : v # FZero }
       IN  IF kept = {} THEN FOne ELSE FMaxSet(kept)

SAFE_MARGIN == FLit(110, -2)
RadiusFloor == FLit(1, -9)
\* zoom (fixed point) as the float it stands for
ZoomF(z) == FDiv(FInt(z), FInt(ZoomScale))

\* px_per_km without the 1e-9 floor under Rmax_km
PxPerKmNoFloor(W, H, eff, z) ==
  FMul(FDiv(FDiv(FInt(IMin(W, H)), FInt(2)), FMul(RmaxKm(eff), SAFE_MARGIN)),
       ZoomF(z))

PxPerKm(W, H, eff, z) ==
  FMul(FDiv(FDiv(FInt(IMin(W, H)), FInt(2)),
            FMul(FMax(RmaxKm(eff), RadiusFloor), SAFE_MARGIN)),
       ZoomF(z))

\* _nice_step with the thresholds 2, 5 and 10, so that it never rounds up
NiceStepRoundsDown(x) ==
  IF ~FPos(x) THEN FOne
  ELSE LET exp == FloorLog10(x)
           frac == FDiv(x, Pow10(exp))
           nice == IF FLt(frac, FLit(2, 0)) THEN FLit(1, 0)
                   ELSE IF FLt(frac, FLit(5, 0)) THEN FLit(2, 0)
                   ELSE FLit(5, 0)
       IN  FMul(nice, Pow10(exp))

\* _nice_step
NiceStep(x) ==
  IF ~FPos(x) THEN FOne
  ELSE LET exp == FloorLog10(x)
           frac == FDiv(x, Pow10(exp))
           nice == IF FLt(frac, FLit(15, -1)) THEN FLit(1, 0)
                   ELSE IF FLt(frac, FLit(35, -1)) THEN FLit(2, 0)
                   ELSE IF FLt(frac, FLit(75, -1)) THEN FLit(5, 0)
                   ELSE FLit(10, 0)
       IN  FMul(nice, Pow10(exp))

\* km_per_px
KmPerPx(ppk) == FDiv(FOne, ppk)
\* the geometry redraw computes before it draws, ppk being its px_per_km
Geometry(W, H, px, py, ppk) ==
  [W |-> W, H |-> H,
   cx |-> FAdd(FDiv(FInt(W), FInt(2)), FInt(px)),
   cy |-> FAdd(FDiv(FInt(H), FInt(2)), FInt(py)),
   px_per_km |-> ppk,
   km_per_px |-> KmPerPx(ppk),
   step_km |-> NiceStep(FMul(FLit(120, 0), KmPerPx(ppk))),
   km_len |-> NiceStep(FMul(FLit(150, 0), KmPerPx(ppk))),
   half_w_km |-> FMul(FDiv(FInt(W), FInt(2)), KmPerPx(ppk)),
   half_h_km |-> FMul(FDiv(FInt(H), FInt(2)), KmPerPx(ppk))]

LabelColor == "#9AA3AF"
\* the item a grid-line loop leaves when it runs out of fuel
Overrun == <<"overrun">>
GridTol == FLit(1, -9)
LabelEps == FLit(1, -6)
\* first grid offset: -math.floor(half / step) * step
GridStart(half, step) == FMul(FInt(-FFloor(FDiv(half, step))), step)

\* vertical grid lines: the while loop over x0
RECURSIVE VLines(_, _, _)
VLines(x0, fuel, g) ==
  IF ~FLe(x0, FAdd(g.half_w_km, GridTol)) THEN <<>>
  ELSE IF fuel = 0 THEN <<Overrun>>
  ELSE LET x == FAdd(g.cx, FMul(x0, g.px_per_km))
           line == <<"line", x, FZero, x, FInt(g.H), "grid">>
           lab == IF FLt(LabelEps, FAbs(x0))
                  THEN << <<"text", <<"km", FFormat(x0, 0)>>,
                            FAdd(x, FInt(6)), FInt(10), LabelColor>> >>
                  ELSE <<>>
       IN  <<line>> \o lab \o VLines(FAdd(x0, g.step_km), fuel - 1, g)

\* horizontal grid lines: the while loop over y0
RECURSIVE HLines(_, _, _)
HLines(y0, fuel, g) ==
  IF ~FLe(y0, FAdd(g.half_h_km, GridTol)) THEN <<>>
  ELSE IF fuel = 0 THEN <<Overrun>>
  ELSE LET y == FSub(g.cy, FMul(y0, g.px_per_km))
           line == <<"line", FZero, y, FInt(g.W), y, "grid">>
           lab == IF FLt(LabelEps, FAbs(y0))
                  THEN << <<"text", <<"km", FFormat(y0, 0)>>,
                            FInt(8), FSub(y, FInt(14)), LabelColor>> >>
                  ELSE <<>>
       IN  <<line>> \o lab \o HLines(FAdd(y0, g.step_km), fuel - 1, g)

\* scale bar: three lines and the label
ScaleBar(g) ==
  LET px_len == FMul(g.km_len, g.px_per_km)
      sb_y == g.H - 24
      sb_x0 == 20
      x1 == FAdd(FInt(sb_x0), px_len)
  IN  << <<"line", FInt(sb_x0), FInt(sb_y), x1, FInt(sb_y), "scalebar">>,
         <<"line", FInt(sb_x0), FInt(sb_y - 5), FInt(sb_x0), FInt(sb_y + 5), "scalebar">>,
         <<"line", x1, FInt(sb_y - 5), x1, FInt(sb_y + 5), "scalebar">>,
         <<"text", <<"km", FFormat(g.km_len, 0)>>,
           FAdd(x1, FInt(8)), FInt(sb_y - 14), LabelColor>> >>

\* ring(radius_km, color_hex, alpha_fill, label): nothing for a radius that is
\* None, zero or negative, else the disk and its label
Ring(radius_km, color_hex, alpha_fill, label, g) ==
  IF radius_km = Missing THEN <<>>
  ELSE IF radius_km = FZero \/ FLe(radius_km, FZero) THEN <<>>
  ELSE LET r == FMul(radius_km, g.px_per_km)
       IN  << <<"ellipse", FSub(g.cx, r), FSub(g.cy, r),
                 FMul(FInt(2), r), FMul(FInt(2), r), color_hex, alpha_fill>>,
              <<"text", <<label, FFormat(radius_km, 1)>>,
                 FAdd(FAdd(g.cx, r), FInt(8)), FSub(g.cy, FInt(10)), "#A9B1BD">> >>

\* the ring calls in the order of the legend
RingCallsInLegendOrder ==
  << <<"severe_blast_km",   "#ff4d4f", 48, "Severe blast">>,
     <<"moderate_blast_km", "#fa8c16", 28, "Moderate blast">>,
     <<"light_blast_km",    "#fadb14", 28, "Light blast">>,
     <<"severe_thermal_km", "#d46b08", 40, "Severe thermal">>,
     <<"light_thermal_km",  "#faad14", 32, "Light thermal">> >>

\* the five ring calls, in the order redraw makes them
RingCalls ==
  << <<"light_thermal_km",  "#faad14", 32, "Light thermal">>,
     <<"severe_thermal_km", "#d46b08", 40, "Severe thermal">>,
     <<"light_blast_km",    "#fadb14", 28, "Light blast">>,
     <<"moderate_blast_km", "#fa8c16", 28, "Moderate blast">>,
     <<"severe_blast_km",   "#ff4d4f", 48, "Severe blast">> >>
RingOf(i, eff, g) ==
  Ring(eff.r[RingCalls[i][1]], RingCalls[i][2], RingCalls[i][3], RingCalls[i][4], g)
Rings(eff, g) ==
  IF Truthy(eff)
  THEN RingOf(1, eff, g) \o RingOf(2, eff, g) \o RingOf(3, eff, g)
       \o RingOf(4, eff, g) \o RingOf(5, eff, g)
  ELSE <<>>

\* the impact-center marker
CenterMarker(g) ==
  << <<"ellipse", FSub(g.cx, FInt(5)), FSub(g.cy, FInt(5)), FInt(10), FInt(10), "#3291ff", 255>> >>

\* the legend: a swatch and a text per kind, 18 px apart from y = 10
LegendRows ==
  << <<"Severe blast", "#ff4d4f">>, <<"Moderate blast", "#fa8c16">>,
     <<"Light blast", "#fadb14">>, <<"Severe thermal", "#d46b08">>,
     <<"Light thermal", "#faad14">> >>
LegendRow(i) ==
  LET y == 10 + 18 * (i - 1)
  IN  << <<"rect", FInt(10), FInt(y), FInt(14), FInt(8), LegendRows[i][2]>>,
         <<"text", <<LegendRows[i][1]>>, FInt(30), FInt(y - 5), LabelColor>> >>
Legend == LegendRow(1) \o LegendRow(2) \o LegendRow(3) \o LegendRow(4) \o LegendRow(5)

\* the items redraw adds, in its order, with the geometry g
Items(eff, g) ==
  VLines(GridStart(g.half_w_km, g.step_km), MaxGridLines, g)
  \o HLines(GridStart(g.half_h_km, g.step_km), MaxGridLines, g)
  \o ScaleBar(g)
  \o Rings(eff, g)
  \o CenterMarker(g)
  \o Legend

\* what redraw adds to the cleared scene
Drawn(W, H, px, py, eff, z) ==
  IF W <= 0 \/ H <= 0 THEN <<>>
  ELSE Items(eff, Geometry(W, H, px, py, PxPerKm(W, H, eff, z)))

\* redraw without scene.clear(): the items pile up
RedrawNoClear(old, W, H, px, py, eff, z) == old \o Drawn(W, H, px, py, eff, z)

\* redraw: scene.clear(), then the items drawn
Redraw(old, W, H, px, py, eff, z) == Drawn(W, H, px, py, eff, z)

\* -------------------------------------------------------- RingsView: state
VARIABLES
  lat, lon,        \* center of the map (floats, degrees)
  effects,         \* the result set held by the view (None at first)
  zoom,            \* zoom factor, in units of 1/ZoomScale
  pan_dx, pan_dy,  \* pan offset (pixels)
  dragging,        \* _dragging
  last_pos,        \* _last_pos
  scene,           \* items of the QGraphicsScene, in insertion order
  vw, vh,          \* viewport().width(), viewport().height()
  last_op,         \* history: the handler that ran last
  redraws,         \* history: the handler that ran last called redraw
  changed,         \* history: the handler that ran last changed zoom or pan
  drag_from        \* history: <<position, pan_dx, pan_dy>> at the left press
                   \* that began the current drag, <<>> when there is none
                   \* or zoom and pan were reset since

view == <<lat, lon, effects, zoom, pan_dx, pan_dy, dragging, last_pos>>
rvars == <<lat, lon, effects, zoom, pan_dx, pan_dy, dragging, last_pos,
           scene, vw, vh, last_op, redraws, changed, drag_from>>

ZoomOne == ZoomScale            \* 1.0
ZoomMin == ZoomScale \div 5     \* 0.2
ZoomMax == 20 * ZoomScale       \* 20.0
NoDrag == <<>>

\* RingsView.__init__, in a viewport of size W x H
InitView(W, H) ==
  /\ effects = NoneEffects
  /\ lat = FZero /\ lon = FZero
  /\ zoom = ZoomOne
  /\ pan_dx = 0 /\ pan_dy = 0
  /\ dragging = FALSE
  /\ last_pos = <<0, 0>>
  /\ scene = <<>>
  /\ vw = W /\ vh = H
  /\ last_op = "init"
  /\ redraws = FALSE
  /\ changed = FALSE
  /\ drag_from = NoDrag

\* self.redraw() at the end of a handler, with the handler's new state
DoRedraw(W, H, px, py, eff, z) ==
  /\ scene' = Redraw(scene, W, H, px, py, eff, z)
  /\ redraws' = TRUE

\* set_data that redraws before it resets zoom and pan
set_dataRedrawsFirst(la, lo, eff) ==
  LET e2 == IF Truthy(eff) THEN eff ELSE EmptyDict
  IN  /\ lat' = la /\ lon' = lo
      /\ effects' = e2
      /\ zoom' = ZoomOne
      /\ pan_dx' = 0 /\ pan_dy' = 0
      /\ DoRedraw(vw, vh, pan_dx, pan_dy, e2, zoom)
      /\ last_op' = "set_data"
      /\ changed' = (zoom # ZoomOne \/ pan_dx # 0 \/ pan_dy # 0)
      /\ drag_from' = NoDrag
      /\ UNCHANGED <<dragging, last_pos, vw, vh>>

\* set_data(lat, lon, effects)
set_data(la, lo, eff) ==
  LET e2 == IF Truthy(eff) THEN eff ELSE EmptyDict
  IN  /\ lat' = la /\ lon' = lo
      /\ effects' = e2
      /\ zoom' = ZoomOne
      /\ pan_dx' = 0 /\ pan_dy' = 0
      /\ DoRedraw(vw, vh, 0, 0, e2, ZoomOne)
      /\ last_op' = "set_data"
      /\ changed' = (zoom # ZoomOne \/ pan_dx # 0 \/ pan_dy # 0)
      /\ drag_from' = NoDrag
      /\ UNCHANGED <<dragging, last_pos, vw, vh>>

\* resizeEvent: the viewport has its new size, then redraw
resizeEvent(W, H) ==
  /\ vw' = W /\ vh' = H
  /\ DoRedraw(W, H, pan_dx, pan_dy, effects, zoom)
  /\ last_op' = "resize"
  /\ changed' = FALSE
  /\ UNCHANGED <<view, drag_from>>

\* the zoom step with no upper clamp
ZoomStepNoUpperClamp(z, up) ==
  IMax(ZoomOne \div 5, IF up THEN RoundDiv(z * 12, 10) ELSE RoundDiv(z * 10, 12))

\* zoom * factor clamped to [0.2, 20.0]; factor is 1.2 or 1/1.2
ZoomStep(z, up) ==
  IMin(ZoomMax, IMax(ZoomMin, IF up THEN RoundDiv(z * 12, 10) ELSE RoundDiv(z * 10, 12)))

\* wheelEvent without the early return on dy = 0: zero zooms out
wheelEventNoZeroReturn(dy) ==
  LET z2 == ZoomStep(zoom, dy > 0)
  IN  /\ last_op' = "wheel"
      /\ zoom' = z2
      /\ DoRedraw(vw, vh, pan_dx, pan_dy, effects, z2)
      /\ changed' = (z2 # zoom)
      /\ UNCHANGED <<lat, lon, effects, pan_dx, pan_dy, dragging,
                     last_pos, vw, vh, drag_from>>

\* wheelEvent, dy = e.angleDelta().y()
wheelEvent(dy) ==
  /\ last_op' = "wheel"
  /\ IF dy = 0
     THEN /\ redraws' = FALSE
          /\ changed' = FALSE
          /\ UNCHANGED <<view, scene, vw, vh, drag_from>>
     ELSE LET z2 == ZoomStep(zoom, dy > 0)
          IN  /\ zoom' = z2
              /\ DoRedraw(vw, vh, pan_dx, pan_dy, effects, z2)
              /\ changed' = (z2 # zoom)
              /\ UNCHANGED <<lat, lon, effects, pan_dx, pan_dy, dragging,
                             last_pos, vw, vh, drag_from>>

\* mousePressEvent
mousePressEvent(button, pos) ==
  /\ IF button = "left"
     THEN /\ dragging' = TRUE
          /\ last_pos' = pos
          /\ drag_from' = <<pos, pan_dx, pan_dy>>
     ELSE UNCHANGED <<dragging, last_pos, drag_from>>
  /\ last_op' = "press"
  /\ redraws' = FALSE
  /\ changed' = FALSE
  /\ UNCHANGED <<lat, lon, effects, zoom, pan_dx, pan_dy, scene, vw, vh>>

\* mouseMoveEvent that pans whether or not a drag is active
mouseMoveEventAlwaysPans(pos) ==
  LET dx == pos[1] - last_pos[1]
      dy == pos[2] - last_pos[2]
  IN  /\ last_op' = "move"
      /\ pan_dx' = pan_dx + dx
      /\ pan_dy' = pan_dy + dy
      /\ last_pos' = pos
      /\ DoRedraw(vw, vh, pan_dx + dx, pan_dy + dy, effects, zoom)
      /\ changed' = (dx # 0 \/ dy # 0)
      /\ UNCHANGED <<lat, lon, effects, zoom, dragging, vw, vh, drag_from>>

\* mouseMoveEvent
mouseMoveEvent(pos) ==
  /\ last_op' = "move"
  /\ IF dragging
     THEN LET dx == pos[1] - last_pos[1]
              dy == pos[2] - last_pos[2]
          IN  /\ pan_dx' = pan_dx + dx
              /\ pan_dy' = pan_dy + dy
              /\ last_pos' = pos
              /\ DoRedraw(vw, vh, pan_dx + dx, pan_dy + dy, effects, zoom)
              /\ changed' = (dx # 0 \/ dy # 0)
              /\ UNCHANGED <<lat, lon, effects, zoom, dragging, vw, vh, drag_from>>
     ELSE /\ redraws' = FALSE
          /\ changed' = FALSE
          /\ UNCHANGED <<view, scene, vw, vh, drag_from>>

\* mouseReleaseEvent
mouseReleaseEvent(button) ==
  /\ IF button = "left"
     THEN dragging' = FALSE /\ drag_from' = NoDrag
     ELSE UNCHANGED <<dragging, drag_from>>
  /\ last_op' = "release"
  /\ redraws' = FALSE
  /\ changed' = FALSE
  /\ UNCHANGED <<lat, lon, effects, zoom, pan_dx, pan_dy, last_pos, scene, vw, vh>>

\* mouseDoubleClickEvent that resets the zoom and keeps the pan offset
mouseDoubleClickEventKeepsPan ==
  /\ zoom' = ZoomOne
  /\ DoRedraw(vw, vh, pan_dx, pan_dy, effects, ZoomOne)
  /\ last_op' = "double_click"
  /\ changed' = (zoom # ZoomOne)
  /\ drag_from' = NoDrag
  /\ UNCHANGED <<lat, lon, effects, pan_dx, pan_dy, dragging, last_pos, vw, vh>>

\* mouseDoubleClickEvent that also ends the drag
mouseDoubleClickEventEndsDrag ==
  /\ zoom' = ZoomOne
  /\ pan_dx' = 0 /\ pan_dy' = 0
  /\ dragging' = FALSE
  /\ DoRedraw(vw, vh, 0, 0, effects, ZoomOne)
  /\ last_op' = "double_click"
  /\ changed' = (zoom # ZoomOne \/ pan_dx # 0 \/ pan_dy # 0)
  /\ drag_from' = NoDrag
  /\ UNCHANGED <<lat, lon, effects, last_pos, vw, vh>>

\* mouseDoubleClickEvent
mouseDoubleClickEvent ==
  /\ zoom' = ZoomOne
  /\ pan_dx' = 0 /\ pan_dy' = 0
  /\ DoRedraw(vw, vh, 0, 0, effects, ZoomOne)
  /\ last_op' = "double_click"
  /\ changed' = (zoom # ZoomOne \/ pan_dx # 0 \/ pan_dy # 0)
  /\ drag_from' = NoDrag
  /\ UNCHANGED <<lat, lon, effects, dragging, last_pos, vw, vh>>

\* ------------------------------------------------------------- MainWindow
VARIABLES
  neo_loaded,        \* self.neo_loaded
  loaded_diameter,   \* self.loaded_diameter: a float or PyNone
  approaches,        \* self.approaches: sequence of <<date, v>>, v a float or PyNone
  neo_name,          \* what nameLabel and idLabel show
  combo,             \* approachCombo: sequence of <<label, data>>
  combo_idx,         \* approachCombo.currentIndex(), -1 when empty
  useNASA,           \* useNASA.isChecked()
  readonly,          \* diamSpin and velSpin are read-only
  diamSpin, velSpin, rhoSpin, angleSpin, latSpin, lonSpin,
  outText,           \* the report shown, or Cleared
  status,            \* statusBar message
  dialog,            \* title of the message box the last handler showed, or NoDialog
  model_call         \* history: <<d, v, rho>> the last handler passed to the
                     \* effects model, or NoCall

mvars == <<neo_loaded, loaded_diameter, approaches, neo_name, combo, combo_idx,
           useNASA, readonly, diamSpin, velSpin, rhoSpin, angleSpin, latSpin,
           lonSpin, outText, status, dialog, model_call>>

PyNone == <<>>
Cleared == <<>>
NoDialog == "none"
NoCall == <<>>

\* QDoubleSpinBox.setValue: round to the decimals, then bound to the range
SpinSet(v, lo, hi, decimals) == FMax(lo, FMin(hi, FRound(v, decimals)))
DiamSet(v) == SpinSet(v, FLit(1, -3), FLit(1, 7), 3)
VelSet(v) == SpinSet(v, FLit(1, -3), FLit(200, 0), 3)
RhoSet(v) == SpinSet(v, FLit(100, 0), FLit(20000, 0), 1)
AngleSet(v) == SpinSet(v, FOne, FLit(90, 0), 1)
LatSet(v) == SpinSet(v, FLit(-90, 0), FLit(90, 0), 6)
LonSet(v) == SpinSet(v, FLit(-180, 0), FLit(180, 0), 6)

\* the values the spin boxes are built with and reset to
DiamDefault == FLit(50, 0)
VelDefault == FLit(20, 0)
RhoDefault == FLit(3000, 0)
AngleDefault == FLit(45, 0)
LatDefault == FLit(5045, -2)
LonDefault == FLit(3052, -2)

\* a "kilometers_per_second" field of a close approach: a string that reads
\* as the float v, a string that does not read as a float, the empty string,
\* or no such field
KpsNum(v) == <<"num", v>>
KpsBad == <<"bad">>
KpsEmpty == <<"empty">>
KpsAbsent == <<"absent">>
\* the v extract_params takes from one close approach
ApproachVelocity(kps) == IF kps[1] = "num" THEN kps[2] ELSE PyNone

\* isinstance(v, (int, float))
IsNumber(v) == v # PyNone
\* truth value of a diameter bound: neither None nor zero
NumTruthy(x) == x # PyNone /\ x # FZero

\* extract_params(neo_json)
extract_params(neo) ==
  LET diameter == IF NumTruthy(neo.d_min) /\ NumTruthy(neo.d_max)
                  THEN FDiv(FAdd(neo.d_min, neo.d_max), FLit(2, 0))
                  ELSE PyNone
      apps == [i \in 1..Len(neo.cad) |->
                 <<neo.cad[i][1], ApproachVelocity(neo.cad[i][2])>>]
  IN  [diameter |-> diameter,
       v_default |-> IF apps # <<>> THEN apps[1][2] ELSE PyNone,
       approaches |-> apps]

\* populate_approaches: the combo items for self.approaches
ComboItems(apps) ==
  [i \in 1..Len(apps) |->
     << <<apps[i][1],
          IF IsNumber(apps[i][2]) THEN FFormat(apps[i][2], 3) ELSE <<"n/a">> >>,
        apps[i][2] >>]
\* approachCombo.currentData()
CurrentData == IF combo_idx < 0 THEN PyNone ELSE combo[combo_idx + 1][2]

\* MainWindow.__init__, the window's own fields and widgets
InitMainWindow ==
  /\ neo_loaded = FALSE
  /\ loaded_diameter = PyNone
  /\ approaches = <<>>
  /\ neo_name = "-"
  /\ combo = <<>>
  /\ combo_idx = -1
  /\ useNASA = FALSE
  /\ readonly = FALSE
  /\ diamSpin = DiamDefault /\ velSpin = VelDefault /\ rhoSpin = RhoDefault
  /\ angleSpin = AngleDefault /\ latSpin = LatDefault /\ lonSpin = LonDefault
  /\ outText = Cleared
  /\ status = "Ready"
  /\ dialog = NoDialog
  /\ model_call = NoCall

\* the view a handler of the window does not touch
ViewIdle == UNCHANGED rvars

\* on_useNASA_changed that leaves the box as the user set it
on_useNASA_changedNoRevert ==
  /\ dialog' = IF ~useNASA /\ ~neo_loaded THEN "No data" ELSE NoDialog
  /\ useNASA' = ~useNASA
  /\ readonly' = ~useNASA
  /\ model_call' = NoCall
  /\ UNCHANGED <<neo_loaded, loaded_diameter, approaches, neo_name, combo,
                 combo_idx, diamSpin, velSpin, rhoSpin, angleSpin, latSpin,
                 lonSpin, outText, status>>
  /\ ViewIdle

\* on_useNASA_changed after the user has clicked the check box
on_useNASA_changed ==
  LET checked == ~useNASA
  IN  /\ IF checked /\ ~neo_loaded
         THEN /\ dialog' = "No data"
              /\ useNASA' = FALSE
              /\ readonly' = FALSE
         ELSE /\ dialog' = NoDialog
              /\ useNASA' = checked
              /\ readonly' = checked
      /\ model_call' = NoCall
      /\ UNCHANGED <<neo_loaded, loaded_diameter, approaches, neo_name, combo,
                     combo_idx, diamSpin, velSpin, rhoSpin, angleSpin, latSpin,
                     lonSpin, outText, status>>
      /\ ViewIdle

\* on_approach_changed(idx) after the user has picked item idx of the combo
on_approach_changed(idx) ==
  /\ idx \in 0..(Len(combo) - 1) /\ idx # combo_idx
  /\ combo_idx' = idx
  /\ LET v == combo[idx + 1][2]
     IN  velSpin' = IF IsNumber(v) THEN VelSet(v) ELSE velSpin
  /\ dialog' = NoDialog
  /\ model_call' = NoCall
  /\ UNCHANGED <<neo_loaded, loaded_diameter, approaches, neo_name, combo,
                 useNASA, readonly, diamSpin, rhoSpin, angleSpin, latSpin,
                 lonSpin, outText, status>>
  /\ ViewIdle

\* on_fetch: q is the query text, res what the request brought: res.kind is
\* "ok" with the NEO record res.neo, "HTTPError", or "Exception" (no
\* connection, name not found)
on_fetch(q, res) ==
  /\ model_call' = NoCall
  /\ ViewIdle
  /\ IF q = ""
     THEN /\ dialog' = "Warning"
          /\ UNCHANGED <<neo_loaded, loaded_diameter, approaches, neo_name,
                         combo, combo_idx, useNASA, readonly, diamSpin, velSpin,
                         rhoSpin, angleSpin, latSpin, lonSpin, outText, status>>
     ELSE IF res.kind # "ok"
     THEN /\ dialog' = IF res.kind = "HTTPError" THEN "HTTP error" ELSE "Error"
          /\ status' = "Error"
          /\ UNCHANGED <<neo_loaded, loaded_diameter, approaches, neo_name,
                         combo, combo_idx, useNASA, readonly, diamSpin, velSpin,
                         rhoSpin, angleSpin, latSpin, lonSpin, outText>>
     ELSE \E p \in {extract_params(res.neo)} :
              /\ neo_name' = res.neo.name
              /\ neo_loaded' = TRUE
              /\ loaded_diameter' = p.diameter
              /\ approaches' = p.approaches
              /\ diamSpin' = IF p.diameter # PyNone THEN DiamSet(p.diameter)
                             ELSE diamSpin
              /\ velSpin' = IF p.v_default # PyNone THEN VelSet(p.v_default)
                            ELSE velSpin
              /\ combo' = ComboItems(p.approaches)
              /\ combo_idx' = IF p.approaches = <<>> THEN -1 ELSE 0
              /\ status' = "NASA data loaded"
              /\ outText' = Cleared
              /\ dialog' = NoDialog
              /\ UNCHANGED <<useNASA, readonly, rhoSpin, angleSpin, latSpin,
                             lonSpin>>

\* the report on_calc writes: the numbers and classes it shows (the lines of
\* advice, which are fixed texts picked by size class and event, are left out)
Report(source, d, rho, v, angle, m, E, mt, eff) ==
  [source |-> source, d |-> d, rho |-> rho, v |-> v, angle |-> angle,
   m |-> m, E |-> E, mt |-> mt,
   Y |-> eff.r[YieldKey],
   size_cls |-> classify_size(d),
   event_type |-> guess_event_type(d, angle)]

\* on_calc
on_calc ==
  LET v_sel == CurrentData
      refused == IF ~useNASA THEN NoDialog
                 ELSE IF ~neo_loaded THEN "No NASA data"
                 ELSE IF loaded_diameter = PyNone THEN "Missing diameter"
                 ELSE IF ~IsNumber(v_sel) THEN "Missing velocity"
                 ELSE NoDialog
  IN  IF refused # NoDialog
      THEN /\ dialog' = refused
           /\ model_call' = NoCall
           /\ UNCHANGED <<neo_loaded, loaded_diameter, approaches, neo_name,
                          combo, combo_idx, useNASA, readonly, diamSpin, velSpin,
                          rhoSpin, angleSpin, latSpin, lonSpin, outText, status>>
           /\ ViewIdle
      ELSE LET d == IF useNASA THEN loaded_diameter ELSE diamSpin
               v == IF useNASA THEN v_sel ELSE velSpin
               source == IF useNASA THEN "NASA (object data)" ELSE "Manual input"
           IN  \E m \in {mass_from_diameter(d, rhoSpin)} :
               \E E \in {kinetic_energy_joules(m, v)} :
               \E mt \in {joules_to_megatons_tnt(E)} :
               \E eff \in {impact_effects(mt, angleSpin)} :
               /\ model_call' = <<d, v, rhoSpin>>
               /\ outText' = Report(source, d, rhoSpin, v, angleSpin, m, E, mt, eff)
               /\ set_data(latSpin, lonSpin, eff)
               /\ status' = "Calculated"
               /\ dialog' = NoDialog
               /\ UNCHANGED <<neo_loaded, loaded_diameter, approaches, neo_name,
                              combo, combo_idx, useNASA, readonly, diamSpin,
                              velSpin, rhoSpin, angleSpin, latSpin, lonSpin>>

\* on_reset
on_reset ==
  /\ neo_loaded' = FALSE
  /\ loaded_diameter' = PyNone
  /\ approaches' = <<>>
  /\ useNASA' = FALSE
  /\ readonly' = FALSE
  /\ neo_name' = "-"
  /\ combo' = <<>>
  /\ combo_idx' = -1
  /\ diamSpin' = DiamSet(DiamDefault) /\ velSpin' = VelSet(VelDefault)
  /\ rhoSpin' = RhoSet(RhoDefault) /\ angleSpin' = AngleSet(AngleDefault)
  /\ latSpin' = LatSet(LatDefault) /\ lonSpin' = LonSet(LonDefault)
  /\ outText' = Cleared
  /\ set_data(FZero, FZero, EmptyDict)
  /\ status' = "Reset"
  /\ dialog' = NoDialog
  /\ model_call' = NoCall

\* the user types a value into a spin box; box is the name of the box
EditSpin(box, v) ==
  /\ box \in {"diam", "vel"} => ~readonly
  /\ diamSpin' = IF box = "diam" THEN DiamSet(v) ELSE diamSpin
  /\ velSpin' = IF box = "vel" THEN VelSet(v) ELSE velSpin
  /\ rhoSpin' = IF box = "rho" THEN RhoSet(v) ELSE rhoSpin
  /\ angleSpin' = IF box = "angle" THEN AngleSet(v) ELSE angleSpin
  /\ latSpin' = IF box = "lat" THEN LatSet(v) ELSE latSpin
  /\ lonSpin' = IF box = "lon" THEN LonSet(v) ELSE lonSpin
  /\ dialog' = NoDialog
  /\ model_call' = NoCall
  /\ UNCHANGED <<neo_loaded, loaded_diameter, approaches, neo_name, combo,
                 combo_idx, useNASA, readonly, outText, status>>
  /\ ViewIdle

\* ------------------------------------ the module's functions, called alone
VARIABLES
  fn_args,   \* the arguments of a call of one of the module's functions, a
             \* tuple headed by the function's name, or NoCall
  fn_value   \* what that call returned, or NoCall while it has not returned

fvars == <<fn_args, fn_value>>

vars == <<rvars, mvars, fvars>>

\* ------------------------------------------------ exploration of the view
\* the pan offset a move to pos would leave stays within MaxPan
PanExplored(pos) ==
  ~dragging \/ ( /\ Abs(pan_dx + pos[1] - last_pos[1]) <= MaxPan
                 /\ Abs(pan_dy + pos[2] - last_pos[2]) <= MaxPan )
\* the zoom a wheel event would leave stays within the window
ZoomExplored(dy) ==
  dy = 0 \/ LET z2 == ZoomStep(zoom, dy > 0)
            IN  z2 * ZoomWindow >= ZoomOne /\ z2 <= ZoomWindow * ZoomOne

\* Spec: every handler of the view; zoom and pan explored within their windows
GestureData == { <<FZero, FZero, NoneEffects>>,
                 <<FLit(5045, -2), FLit(3052, -2),
                   MkEffects(FLit(8, 0), FLit(22, -1), FLit(44, -1), FLit(76, -1),
                             FLit(32, -1), FLit(9, 0))>> }
GestureSizes == { <<0, 300>>, <<400, 300>> }

SetData == (\E d \in GestureData : set_data(d[1], d[2], d[3])) /\ UNCHANGED <<mvars, fvars>>
Resize == (\E s \in GestureSizes : resizeEvent(s[1], s[2])) /\ UNCHANGED <<mvars, fvars>>
Wheel == (\E dy \in WheelDeltas : ZoomExplored(dy) /\ wheelEvent(dy)) /\ UNCHANGED <<mvars, fvars>>
Press == (\E b \in Buttons : \E p \in Positions : mousePressEvent(b, p)) /\ UNCHANGED <<mvars, fvars>>
Move == (\E p \in Positions : PanExplored(p) /\ mouseMoveEvent(p)) /\ UNCHANGED <<mvars, fvars>>
Release == (\E b \in Buttons : mouseReleaseEvent(b)) /\ UNCHANGED <<mvars, fvars>>
DoubleClick == mouseDoubleClickEvent /\ UNCHANGED <<mvars, fvars>>

Init == InitView(400, 300) /\ InitMainWindow /\ fn_args = NoCall /\ fn_value = NoCall
Next == SetData \/ Resize \/ Wheel \/ Press \/ Move \/ Release \/ DoubleClick
Spec == Init /\ [][Next]_vars

\* SpecZoom: every handler of the view; the whole zoom range, one viewport
\* size, the pointer at rest
ZoomData == { <<FZero, FZero, EmptyDict>> }
ZoomSizes == { <<400, 300>> }
RestPositions == { <<0, 0>> }

ZSetData == (\E d \in ZoomData : set_data(d[1], d[2], d[3])) /\ UNCHANGED <<mvars, fvars>>
ZResize == (\E s \in ZoomSizes : resizeEvent(s[1], s[2])) /\ UNCHANGED <<mvars, fvars>>
ZWheel == (\E dy \in WheelDeltas : wheelEvent(dy)) /\ UNCHANGED <<mvars, fvars>>
ZPress == (\E b \in Buttons : \E p \in RestPositions : mousePressEvent(b, p)) /\ UNCHANGED <<mvars, fvars>>
ZMove == (\E p \in RestPositions : mouseMoveEvent(p)) /\ UNCHANGED <<mvars, fvars>>
ZRelease == (\E b \in Buttons : mouseReleaseEvent(b)) /\ UNCHANGED <<mvars, fvars>>
ZDoubleClick == mouseDoubleClickEvent /\ UNCHANGED <<mvars, fvars>>

NextZoom == ZSetData \/ ZResize \/ ZWheel \/ ZPress \/ ZMove \/ ZRelease \/ ZDoubleClick
SpecZoom == Init /\ [][NextZoom]_vars

\* SpecDraw: redraw over view states sampled from those the view reaches
\* while its viewport has no area (the scene is then empty), followed by the
\* handlers that redraw: resizeEvent, set_data, mouseDoubleClickEvent
DrawZooms ==
  { ZoomMin, ZoomStep(ZoomOne, FALSE), ZoomOne, ZoomStep(ZoomOne, TRUE),
    ZoomStep(ZoomMax, FALSE), ZoomMax }
DrawPans == { <<0, 0>>, <<7, -3>>, <<-150, 40>> }

InitDraw ==
  /\ effects \in EffectsInputs \ {EmptyDict}
  /\ \E c \in Centers :
        /\ lat = c[1] /\ lon = c[2]
        /\ (effects = NoneEffects => c = <<FZero, FZero>>)
  /\ zoom \in DrawZooms
  /\ \E p \in DrawPans : pan_dx = p[1] /\ pan_dy = p[2]
  /\ dragging = FALSE
  /\ last_pos = <<0, 0>>
  /\ scene = <<>>
  /\ vw = 0 /\ vh = 300
  /\ last_op = "release"
  /\ redraws = FALSE
  /\ changed = FALSE
  /\ drag_from = NoDrag
  /\ InitMainWindow
  /\ fn_args = NoCall /\ fn_value = NoCall

DSetData == (\E c \in Centers : \E eff \in EffectsInputs : set_data(c[1], c[2], eff)) /\ UNCHANGED <<mvars, fvars>>
DResize == (\E s \in ViewportSizes : resizeEvent(s[1], s[2])) /\ UNCHANGED <<mvars, fvars>>
DDoubleClick == mouseDoubleClickEvent /\ UNCHANGED <<mvars, fvars>>

NextDraw == DSetData \/ DResize \/ DDoubleClick
SpecDraw == InitDraw /\ [][NextDraw]_vars


\* SpecMain: every handler of the window, with the view it owns
Neo(name, d_min, d_max, cad) ==
  [name |-> name, d_min |-> d_min, d_max |-> d_max, cad |-> cad]
\* NEO records a fetch brings: a usual one whose second approach has no
\* velocity; one without a diameter bound and with an unreadable velocity; one
\* without close approaches; one with velocities "0" and "-5"; one with
\* negative diameter bounds
NeoRecords ==
  { Neo("usual", FLit(100, 0), FLit(200, 0),
        << <<"2029-04-13", KpsNum(FLit(1342, -2))>>, <<"2036-03-27", KpsAbsent>> >>),
    Neo("no diameter", PyNone, FLit(200, 0),
        << <<"2031-01-01", KpsNum(FLit(1342, -2))>>, <<"2040-01-01", KpsBad>> >>),
    Neo("no approach", FLit(100, 0), FLit(200, 0), <<>>),
    Neo("velocity not positive", FLit(100, 0), FLit(200, 0),
        << <<"2030-05-05", KpsNum(FZero)>>, <<"2033-06-06", KpsNum(FLit(-5, 0))>> >>),
    Neo("diameter negative", FLit(-30, 0), FLit(-10, 0),
        << <<"2032-02-02", KpsNum(FLit(1342, -2))>>, <<"2034-02-02", KpsEmpty>> >>) }
NoNeo == Neo("-", PyNone, PyNone, <<>>)
FetchResults ==
  { [kind |-> "ok", neo |-> n] : n \in NeoRecords }
  \cup { [kind |-> k, neo |-> NoNeo] : k \in {"HTTPError", "Exception"} }
FetchQueries == {"", "3542519"}
\* values the user types into the boxes the model reads, each the least or
\* the greatest its box takes
SpinEdits ==
  { <<"diam", FLit(1, -3)>>, <<"vel", FLit(1, -3)>>, <<"rho", FLit(100, 0)>>,
    <<"angle", FLit(90, 0)>> }

\* the view after MainWindow.__init__ has pushed the empty result set into it
\* and the window has been shown with a viewport of W x H
InitShownView(W, H) ==
  /\ effects = EmptyDict
  /\ lat = FZero /\ lon = FZero
  /\ zoom = ZoomOne
  /\ pan_dx = 0 /\ pan_dy = 0
  /\ dragging = FALSE
  /\ last_pos = <<0, 0>>
  /\ scene = Drawn(W, H, 0, 0, EmptyDict, ZoomOne)
  /\ vw = W /\ vh = H
  /\ last_op = "resize"
  /\ redraws = TRUE
  /\ changed = FALSE
  /\ drag_from = NoDrag

\* with box edited, at most MaxEdited of the boxes that only the user sets
\* are away from their defaults
EditExplored(box) ==
  LET away == { b \in {"rho", "angle"} :
                  \/ b = box
                  \/ b = "rho" /\ rhoSpin # RhoDefault
                  \/ b = "angle" /\ angleSpin # AngleDefault }
  IN  Cardinality(away) <= MaxEdited

InitMain ==
  InitMainWindow /\ InitShownView(400, 300) /\ fn_args = NoCall /\ fn_value = NoCall
Fetch ==
  (\E q \in FetchQueries : \E res \in FetchResults : on_fetch(q, res))
  /\ UNCHANGED fvars
ToggleNASA == on_useNASA_changed /\ UNCHANGED fvars
PickApproach == (\E idx \in 0..1 : on_approach_changed(idx)) /\ UNCHANGED fvars
Edit ==
  (\E e \in SpinEdits : EditExplored(e[1]) /\ EditSpin(e[1], e[2]))
  /\ UNCHANGED fvars
Calc == on_calc /\ UNCHANGED fvars
Reset == on_reset /\ UNCHANGED fvars
NextMain == Fetch \/ ToggleNASA \/ PickApproach \/ Edit \/ Calc \/ Reset
SpecMain == InitMain /\ [][NextMain]_vars

\* SpecFn: the effects model and _nice_step, each called on arguments drawn
\* from a set that holds the cases of its code
\* the values on_calc computes from d, v, rho and angle
ComputeEffects ==
  /\ fn_args # NoCall /\ fn_args[1] = "effects" /\ fn_value = NoCall
  /\ \E m \in {mass_from_diameter(fn_args[2], fn_args[4])} :
     \E E \in {kinetic_energy_joules(m, fn_args[3])} :
     \E mt \in {joules_to_megatons_tnt(E)} :
       fn_value' = [m |-> m, E |-> E, mt |-> mt,
                    effects |-> impact_effects(mt, fn_args[5])]
  /\ UNCHANGED <<fn_args, rvars, mvars>>
\* surface_yield_mt(kinetic_mt, angle_deg)
SurfaceYield ==
  /\ fn_args # NoCall /\ fn_args[1] = "surface_yield_mt" /\ fn_value = NoCall
  /\ fn_value' = surface_yield_mt(fn_args[2], fn_args[3])
  /\ UNCHANGED <<fn_args, rvars, mvars>>
\* _nice_step(x)
NiceStepCall ==
  /\ fn_args # NoCall /\ fn_args[1] = "_nice_step" /\ fn_value = NoCall
  /\ fn_value' = NiceStep(fn_args[2])
  /\ UNCHANGED <<fn_args, rvars, mvars>>

\* a call not yet made: diameters from a negative one to 10^7 m, velocities
\* from zero to 200 km/s, the least and the usual density, angles below, in
\* and above [1, 90]; kinetic yields from negative to 10^6 Mt; targets of
\* _nice_step below, at and above each threshold, in several decades
InitFn ==
  LET Angles == { FLit(-30, 0), FZero, FLit(5, -1), FOne, FLit(30, 0),
                  FLit(45, 0), FLit(89, 0), FLit(90, 0), FLit(120, 0) }
      Diameters == { FLit(-20, 0), FLit(1, -3), FLit(50, 0), FLit(1, 7) }
      Velocities == { FZero, FLit(1, -3), FLit(20, 0), FLit(200, 0) }
      Densities == { FLit(100, 0), FLit(3000, 0) }
      Yields == { FLit(-5, 0), FZero, FLit(1, -12), FLit(1, -9), FLit(2, -9),
                  FOne, FLit(939, -2), FLit(1, 6) }
      Targets == { FLit(-3, 0), FZero, FLit(1, -7), FLit(1499, -4),
                   FLit(15, -2), FLit(88, -2), FOne, FLit(1499, -3),
                   FLit(15, -1), FLit(17, -1), FLit(3499, -3), FLit(35, -1),
                   FLit(5, 0), FLit(7499, -3), FLit(75, -1), FLit(9999, -3),
                   FLit(10, 0), FLit(40, 0), FLit(8797, -1) }
  IN  /\ fn_args \in
           { <<"effects", d, v, rho, a>> :
               d \in Diameters, v \in Velocities, rho \in Densities, a \in Angles }
           \cup { <<"surface_yield_mt", y, a>> : y \in Yields, a \in Angles }
           \cup { <<"_nice_step", x>> : x \in Targets }
      /\ fn_value = NoCall
      /\ InitMainWindow /\ InitShownView(400, 300)

NextFn == ComputeEffects \/ SurfaceYield \/ NiceStepCall
SpecFn == InitFn /\ [][NextFn]_vars

\* ================================================================ claims
Pan == <<pan_dx, pan_dy>>

\* ---------------------------------------------------------------------- C1
\* C1 (state part): the zoom factor lies in [0.2, 20.0]; below 20.0 a zoom-in
\* strictly raises it and at 20.0 leaves it there, above 0.2 a zoom-out
\* strictly lowers it and at 0.2 leaves it there, so that a run of zoom-ins
\* ends at exactly 20.0 and a run of zoom-outs at exactly 0.2
C1_ZoomRange ==
  /\ ZoomMin <= zoom /\ zoom <= ZoomMax
  /\ zoom < ZoomMax => ZoomStep(zoom, TRUE) > zoom
  /\ zoom > ZoomMin => ZoomStep(zoom, FALSE) < zoom
  /\ ZoomStep(ZoomMax, TRUE) = ZoomMax
  /\ ZoomStep(ZoomMin, FALSE) = ZoomMin

\* C1 (step part): a wheel event with positive delta sets zoom to
\* min(20.0, zoom * 1.2), one with negative delta to max(0.2, zoom / 1.2)
C1_WheelStep ==
  \A dy \in WheelDeltas :
     wheelEvent(dy) =>
        /\ dy > 0 => zoom' = IMin(ZoomMax, RoundDiv(zoom * 12, 10))
        /\ dy < 0 => zoom' = IMax(ZoomMin, RoundDiv(zoom * 10, 12))

\* C1: in every reachable state the zoom factor lies in [0.2, 20.0]; each wheel
\* event with positive delta sets zoom to min(20.0, zoom*1.2) and with negative
\* delta to max(0.2, zoom/1.2); repeated zoom-in saturates at exactly 20.0 and
\* repeated zoom-out at exactly 0.2
C1_ZoomClamp == [][C1_ZoomRange /\ C1_ZoomRange' /\ C1_WheelStep]_vars

\* a zoom-in wheel event arrived at zoom 20.0 and left it there
C1_Witness ==
  zoom = ZoomMax /\ last_op = "wheel" /\ redraws /\ ~changed

\* ---------------------------------------------------------------------- C2
\* C2: after a double-click zoom is 1.0 and the pan offset is (0,0), whatever
\* came before; the double-click leaves center and effects unchanged
C2_DoubleClickResets ==
  /\ [](last_op = "double_click" => zoom = ZoomOne /\ Pan = <<0, 0>>)
  /\ [][last_op' = "double_click" => UNCHANGED <<lat, lon, effects>>]_vars

\* a double-click reset a view that was zoomed or panned, in the middle of a
\* drag, with a result set on display
C2_Witness ==
  /\ last_op = "double_click" /\ changed
  /\ dragging /\ Truthy(effects) /\ lat # FZero

\* ---------------------------------------------------------------------- C3
\* what set_data stores for the effects it is given: {} for None
StoredEffects(eff) == IF eff.none THEN EmptyDict ELSE eff

\* C3: set_data(lat, lon, effects) in any reachable state replaces the center
\* with (lat, lon) and the result set with effects (None becomes the empty
\* set), sets zoom to 1.0 and pan to (0,0), and then redraws: the scene is the
\* one drawn from the new state
C3_SetDataStep ==
  \A d \in GestureData :
     set_data(d[1], d[2], d[3]) =>
        /\ lat' = d[1] /\ lon' = d[2]
        /\ effects' = StoredEffects(d[3])
        /\ zoom' = ZoomOne /\ Pan' = <<0, 0>>
        /\ redraws'
        /\ scene' = Drawn(vw, vh, 0, 0, StoredEffects(d[3]), ZoomOne)
C3_SetData == [][C3_SetDataStep]_vars

\* set_data replaced center and result set of a view that was zoomed or panned
C3_Witness ==
  /\ last_op = "set_data" /\ changed
  /\ Truthy(effects) /\ lat # FZero /\ scene # <<>>

\* ---------------------------------------------------------------------- C4
\* C4 (state part): within one drag with no reset in between, the pan change
\* since the press is the pointer position minus the press position
C4_DragAccumulates ==
  (dragging /\ drag_from # NoDrag) =>
     /\ pan_dx - drag_from[2] = last_pos[1] - drag_from[1][1]
     /\ pan_dy - drag_from[3] = last_pos[2] - drag_from[1][2]

\* C4 (step part): a move during a drag adds (position - last position) to the
\* pan offset and redraws; a move with no drag, and any press or release,
\* leaves the pan offset unchanged
C4_MoveStep ==
  /\ \A p \in Positions :
        mouseMoveEvent(p) =>
           IF dragging
           THEN /\ pan_dx' = pan_dx + (p[1] - last_pos[1])
                /\ pan_dy' = pan_dy + (p[2] - last_pos[2])
                /\ redraws'
                /\ scene' = Drawn(vw, vh, pan_dx', pan_dy', effects, zoom)
           ELSE Pan' = Pan /\ ~redraws'
  /\ last_op' \in {"press", "release"} => Pan' = Pan

\* C4: pointer moves change the pan offset only while a drag is active (between
\* a left press and the next left release)
C4_DragPan == []C4_DragAccumulates /\ [][C4_MoveStep]_vars

\* a second move of one drag has panned the view
C4_Witness ==
  /\ dragging /\ drag_from # NoDrag
  /\ last_op = "move" /\ changed
  /\ last_pos # drag_from[1]
  /\ Pan # <<drag_from[2], drag_from[3]>>
  /\ drag_from[2] # 0

\* ---------------------------------------------------------------------- C5
\* C5: a wheel event with delta zero changes nothing and does not redraw; one
\* with non-zero delta changes only the zoom factor
C5_WheelStep ==
  \A dy \in WheelDeltas :
     wheelEvent(dy) =>
        IF dy = 0
        THEN UNCHANGED <<view, scene>> /\ ~redraws'
        ELSE UNCHANGED <<pan_dx, pan_dy, lat, lon, effects, dragging, last_pos>>
C5_WheelFrame == [][C5_WheelStep]_vars

\* a wheel event with delta zero arrived at a zoomed, panned view in a drag
C5_Witness ==
  /\ last_op = "wheel" /\ ~redraws
  /\ zoom # ZoomOne /\ pan_dx # 0 /\ dragging /\ Truthy(effects)

\* ---------------------------------------------------------------------- C6
\* C6 (state part): the scene a redraw leaves is the one drawn from the view
\* state and the viewport size, with nothing left of the scene before
C6_SceneIsDrawn ==
  redraws => scene = Drawn(vw, vh, pan_dx, pan_dy, effects, zoom)

\* C6 (step part): a resize (a redraw and nothing else) leaves the view state
\* as it is; a redraw that follows a redraw with view state and viewport size
\* unchanged leaves the same scene
C6_RedrawStep ==
  /\ last_op' = "resize" => UNCHANGED view
  /\ (redraws /\ last_op' = "resize" /\ vw' = vw /\ vh' = vh) => scene' = scene

\* C6: redraw is idempotent and modifies no view state: two redraws in a row
\* with the same view state and viewport size leave the same scene, which is a
\* function of view state and viewport size only; items do not accumulate
C6_RedrawIdempotent == []C6_SceneIsDrawn /\ [][C6_RedrawStep]_vars

\* a redraw has drawn rings into a scene, with the view panned, and a further
\* redraw can follow
C6_Witness ==
  /\ last_op = "resize" /\ redraws
  /\ \E i \in 1..Len(scene) : scene[i][1] = "ellipse" /\ scene[i][6] = "#faad14"
  /\ Pan # <<0, 0>>

\* ---------------------------------------------------------------------- C7
\* C7: redraw never raises or divides by zero: with W <= 0 or H <= 0 it
\* clears the scene and draws nothing; otherwise every divisor it uses is
\* positive, px_per_km > 0 for every zoom and every result set (also all radii
\* zero or negative), step_km > 0, and both grid loops end
C7_RedrawTotal ==
  redraws =>
     IF vw <= 0 \/ vh <= 0 THEN scene = <<>>
     ELSE LET g == Geometry(vw, vh, pan_dx, pan_dy, PxPerKm(vw, vh, effects, zoom))
          IN  /\ FPos(FMul(FMax(RmaxKm(effects), RadiusFloor), SAFE_MARGIN))
              /\ FPos(g.px_per_km)
              /\ FPos(g.km_per_px)
              /\ FPos(g.step_km)
              /\ scene # <<>>
              /\ \A i \in 1..Len(scene) : scene[i] # Overrun

\* a redraw at the largest zoom with every radius negative
C7_Witness ==
  /\ redraws /\ vw > 0 /\ vh > 0
  /\ zoom = ZoomMax
  /\ \A k \in RadiusKeys : effects.r[k] # Missing /\ ~FPos(effects.r[k]) /\ effects.r[k] # FZero
  /\ scene # <<>>

\* ---------------------------------------------------------------------- C8
\* no radius to show: every radius missing or zero (None and {} included)
NoRadii(eff) == \A k \in RadiusKeys : eff.r[k] \in {Missing, FZero}
\* the largest of the radii the result set holds
MaxPresent(eff) ==
  FMaxSet({ eff.r[k] : k \in { j \in RadiusKeys : eff.r[j] # Missing } })
NonNegative(eff) ==
  \A k \in RadiusKeys : eff.r[k] = Missing \/ ~FLt(eff.r[k], FZero)
\* number of items of the scene that satisfy Test
CountItems(Test(_)) == Cardinality({ i \in 1..Len(scene) : Test(scene[i]) })
IsGridLine(it) == it[1] = "line" /\ it[6] = "grid"
IsScaleLine(it) == it[1] = "line" /\ it[6] = "scalebar"
IsMarker(it) == it[1] = "ellipse" /\ it[6] = "#3291ff"
IsEllipse(it) == it[1] = "ellipse"
IsSwatch(it) == it[1] = "rect"
IsLegendText(it) == it[1] = "text" /\ Len(it[2]) = 1
IsRingLabel(it) == it[1] = "text" /\ it[5] = "#A9B1BD"

RingOrder ==
  << "light_thermal_km", "severe_thermal_km", "light_blast_km",
     "moderate_blast_km", "severe_blast_km" >>
RingColor(k) ==
  CASE k = "light_thermal_km" -> "#faad14"
    [] k = "severe_thermal_km" -> "#d46b08"
    [] k = "light_blast_km" -> "#fadb14"
    [] k = "moderate_blast_km" -> "#fa8c16"
    [] OTHER -> "#ff4d4f"
RingLabel(k) ==
  CASE k = "light_thermal_km" -> "Light thermal"
    [] k = "severe_thermal_km" -> "Severe thermal"
    [] k = "light_blast_km" -> "Light blast"
    [] k = "moderate_blast_km" -> "Moderate blast"
    [] OTHER -> "Severe blast"
IsRingDisk(it) == it[1] = "ellipse" /\ it[6] # "#3291ff"
\* the radius under k is there and positive
HasRing(k) == effects.r[k] # Missing /\ FPos(effects.r[k])
RingsDue == SelectSeq(RingOrder, HasRing)

\* C9: the rings drawn are those of the radii that are present and positive,
\* in the order light thermal, severe thermal, light blast, moderate blast,
\* severe blast whatever the radii are; each is centered at
\* (W/2 + pan_x, H/2 + pan_y) with pixel radius radius_km * px_per_km; a
\* radius that is missing, zero or negative has neither disk nor label
C9_RingOrder ==
  (redraws /\ vw > 0 /\ vh > 0) =>
     LET disks == SelectSeq(scene, IsRingDisk)
         labels == SelectSeq(scene, IsRingLabel)
         cx == FAdd(FDiv(FInt(vw), FInt(2)), FInt(pan_dx))
         cy == FAdd(FDiv(FInt(vh), FInt(2)), FInt(pan_dy))
     IN  /\ Len(disks) = Len(RingsDue)
         /\ Len(labels) = Len(RingsDue)
         /\ \A i \in 1..Len(RingsDue) :
               LET k == RingsDue[i]
                   r == FMul(effects.r[k], PxPerKm(vw, vh, effects, zoom))
               IN  /\ disks[i][6] = RingColor(k)
                   /\ disks[i][2] = FSub(cx, r) /\ disks[i][3] = FSub(cy, r)
                   /\ disks[i][4] = FMul(FInt(2), r) /\ disks[i][5] = disks[i][4]
                   /\ labels[i][2][1] = RingLabel(k)

\* a redraw, panned, of a result set with radii out of order: two rings due,
\* one radius negative, one zero, one missing
C9_Witness ==
  /\ redraws /\ vw > 0 /\ vh > 0 /\ Pan # <<0, 0>>
  /\ Len(RingsDue) = 2
  /\ \E k \in RadiusKeys : effects.r[k] = Missing
  /\ \E k \in RadiusKeys : effects.r[k] = FZero
  /\ \E k \in RadiusKeys : effects.r[k] # Missing /\ FLt(effects.r[k], FZero)
  /\ Len(SelectSeq(scene, IsRingDisk)) = 2

\* --------------------------------------------------------------------- C10
\* C10: the effects model is never invoked with a non-positive diameter,
\* velocity or density: whenever on_calc has gone on to compute mass, energy
\* and effects, the diameter, the velocity and the density it passed are all
\* positive (on the manual path and on the NASA path alike)
C10_ModelArgsPositive ==
  model_call # NoCall =>
     /\ FPos(model_call[1]) /\ FPos(model_call[2]) /\ FPos(model_call[3])

\* on_calc, with NASA data in use, has computed and shown the effects of a
\* velocity that is not positive: nothing was refused, and the yield shown is
\* the 1e-9 floor
C10_Witness ==
  /\ model_call # NoCall /\ useNASA
  /\ ~FPos(model_call[2])
  /\ dialog = NoDialog /\ status = "Calculated"
  /\ last_op = "set_data"
  /\ effects.r[YieldKey] = YieldFloor

\* what does hold of on_calc: on the manual path the three values are positive,
\* and the density is positive on every path
C10_ManualArgsPositive ==
  model_call # NoCall =>
     /\ FPos(model_call[3])
     /\ ~useNASA => FPos(model_call[1]) /\ FPos(model_call[2])

\* --------------------------------------------------------------------- C11
\* a call of the function named f has returned
Returned(f) == fn_args # NoCall /\ fn_args[1] = f /\ fn_value # NoCall
\* the effects were computed from a diameter, a velocity and a density > 0
PositiveBody == FPos(fn_args[2]) /\ FPos(fn_args[3]) /\ FPos(fn_args[4])

\* C11: for every diameter > 0, velocity > 0, density > 0 and any entry angle
\* the effects hold an effective_surface_yield_mt that is positive and not
\* below 1e-9, and five radii, none missing and none negative
C11_EffectsPositive ==
  (Returned("effects") /\ PositiveBody) =>
     /\ fn_value.effects.r[YieldKey] # Missing
     /\ FPos(fn_value.effects.r[YieldKey])
     /\ FLe(FLit(1, -9), fn_value.effects.r[YieldKey])
     /\ \A k \in RadiusKeys :
           /\ fn_value.effects.r[k] # Missing
           /\ FLe(FZero, fn_value.effects.r[k])

\* effects computed from a positive body too small to reach the floor by
\* itself: the kinetic yield is below 1e-9 Mt
C11_Witness ==
  /\ Returned("effects") /\ PositiveBody
  /\ FLt(fn_value.mt, FLit(1, -9))
  /\ FPos(fn_value.mt)

\* --------------------------------------------------------------------- C12
\* the constant of each radius
RadiusConstant ==
  [k \in RadiusKeys |->
     CASE k = "severe_blast_km" -> FLit(11, -1)
       [] k = "moderate_blast_km" -> FLit(22, -1)
       [] k = "light_blast_km" -> FLit(38, -1)
       [] k = "severe_thermal_km" -> FLit(16, -1)
       [] OTHER -> FLit(45, -1)]
\* a and b differ by no more than a few units of the last digit kept
RatioTolerance == FLit(2, -3)
CloseTo(a, b) == FLe(FAbs(FSub(a, b)), FMul(RatioTolerance, FMax(FAbs(a), FAbs(b))))

\* C12: whatever the yield, every two radii are in the ratio of their
\* constants 1.1, 2.2, 3.8, 1.6, 4.5 (r_i * c_j = r_j * c_i within float
\* tolerance), and so severe <= moderate <= light blast and severe <= light
\* thermal
C12_RadiusRatios ==
  Returned("effects") =>
     /\ \A i, j \in RadiusKeys :
           CloseTo(FMul(fn_value.effects.r[i], RadiusConstant[j]),
                   FMul(fn_value.effects.r[j], RadiusConstant[i]))
     /\ FLe(fn_value.effects.r["severe_blast_km"], fn_value.effects.r["moderate_blast_km"])
     /\ FLe(fn_value.effects.r["moderate_blast_km"], fn_value.effects.r["light_blast_km"])
     /\ FLe(fn_value.effects.r["severe_thermal_km"], fn_value.effects.r["light_thermal_km"])

\* effects of a yield above a thousand megatons, far from the floor
C12_Witness ==
  /\ Returned("effects")
  /\ FLt(FLit(1, 3), fn_value.effects.r[YieldKey])
  /\ FLt(FLit(11, 0), fn_value.effects.r["severe_blast_km"])

\* --------------------------------------------------------------------- C13
\* C13: surface_yield_mt clamps the angle to [1, 90] (below 1 it returns what
\* it returns at 1, above 90 what it returns at 90); for an angle in [1, 90]
\* and a kinetic yield that 0.55 times leaves at or above the floor, the yield
\* returned lies between 0.55 times and 1.0 times the kinetic yield (for the
\* kinetic yield 1.0 it is the factor itself); at 90 degrees the yield
\* returned is the kinetic yield itself, the factor being exactly 1.0
C13_AngleCoupling ==
  Returned("surface_yield_mt") =>
     /\ FLt(fn_args[3], FOne) => fn_value = surface_yield_mt(fn_args[2], FOne)
     /\ FLt(FLit(90, 0), fn_args[3]) =>
           fn_value = surface_yield_mt(fn_args[2], FLit(90, 0))
     /\ ( /\ FLe(FOne, fn_args[3]) /\ FLe(fn_args[3], FLit(90, 0))
          /\ FLe(FLit(1, -9), FMul(FLit(55, -2), fn_args[2])) ) =>
           /\ FLe(FMul(FLit(55, -2), fn_args[2]), fn_value)
           /\ FLe(fn_value, fn_args[2])
     /\ (fn_args[3] = FLit(90, 0) /\ FLe(FLit(1, -9), fn_args[2])) =>
           fn_value = fn_args[2]

\* the factor at half a degree, which is the factor at one degree: above
\* 0.55 and below 0.56
C13_Witness ==
  /\ Returned("surface_yield_mt")
  /\ fn_args[2] = FOne /\ fn_args[3] = FLit(5, -1)
  /\ FLt(FLit(55, -2), fn_value) /\ FLt(fn_value, FLit(56, -2))

\* --------------------------------------------------------------------- C14
\* the decades searched for floor(log10(x))
Decades == -12..12
\* m * 10^e, the m picked by the thresholds from the leading fraction x / 10^e
Snapped(x, e) ==
  LET frac == FDiv(x, Pow10(e))
      m == IF FLt(frac, FLit(15, -1)) THEN 1
           ELSE IF FLt(frac, FLit(35, -1)) THEN 2
           ELSE IF FLt(frac, FLit(75, -1)) THEN 5
           ELSE 10
  IN  FMul(FInt(m), Pow10(e))
\* a float of the form {1, 2, 5} x 10^n
IsNice(r) == r[1] \in {BaseLo, 2 * BaseLo, 5 * BaseLo}

\* C14: for x <= 0 _nice_step returns 1.0; for x > 0, with e the integer that
\* has 10^e <= x < 10^(e+1), it returns m * 10^e, m being 1, 2, 5 or 10 by the
\* thresholds 1.5, 3.5, 7.5 on x / 10^e; the result is positive and one of
\* {1, 2, 5} x 10^n
C14_NiceStep ==
  Returned("_nice_step") =>
     /\ ~FPos(fn_args[2]) => fn_value = FOne
     /\ FPos(fn_args[2]) =>
           /\ \E e \in Decades :
                 /\ FLe(Pow10(e), fn_args[2]) /\ FLt(fn_args[2], Pow10(e + 1))
                 /\ fn_value = Snapped(fn_args[2], e)
           /\ FPos(fn_value)
           /\ IsNice(fn_value)

\* _nice_step(1.7) = 2.0: a fraction between two thresholds, rounded up
C14_Witness ==
  /\ Returned("_nice_step")
  /\ fn_args[2] = FLit(17, -1)
  /\ fn_value = FLit(2, 0)

\* C14, the use of _nice_step in redraw: the grid step is _nice_step of 120
\* pixels and the length of the scale bar is _nice_step of 150 pixels, both in
\* km at the current scale, and the scale bar's label shows that length
C14_SameStepInRedraw ==
  (redraws /\ vw > 0 /\ vh > 0) =>
     LET g == Geometry(vw, vh, pan_dx, pan_dy, PxPerKm(vw, vh, effects, zoom))
     IN  /\ g.step_km = NiceStep(FMul(FLit(120, 0), FDiv(FOne, g.px_per_km)))
         /\ g.km_len = NiceStep(FMul(FLit(150, 0), FDiv(FOne, g.px_per_km)))
         /\ IsNice(g.step_km) /\ IsNice(g.km_len)
         /\ \E i \in 1..Len(scene) :
               /\ scene[i][1] = "text"
               /\ scene[i][2] = <<"km", FFormat(g.km_len, 0)>>
               /\ scene[i][4] = FInt(vh - 38)

\* --------------------------------------------------------------------- C15
\* the toggle is checked only if NASA data is loaded
C15_CheckedImpliesLoaded == useNASA => neo_loaded
\* a click that checks the toggle with no data loaded leaves it unchecked and
\* shows the "No data" box; a reset leaves nothing loaded and the toggle
\* unchecked; a fetch never unloads, and a fetch that fails or has no query
\* loads nothing
C15_Step ==
  /\ (on_useNASA_changed /\ ~useNASA /\ ~neo_loaded) =>
        (~useNASA' /\ ~neo_loaded' /\ dialog' = "No data")
  /\ on_reset => (~neo_loaded' /\ ~useNASA')
  /\ neo_loaded /\ ~neo_loaded' => status' = "Reset"
  /\ (~neo_loaded /\ neo_loaded') => status' = "NASA data loaded"

\* C15: in every state the window reaches by fetches (successful or failing),
\* toggles, calculations and resets, useNASA checked implies neo_loaded:
\* checking the toggle with no data loaded is reverted at once, and reset
\* clears both the loaded flag and the toggle
C15_ToggleNeedsData == []C15_CheckedImpliesLoaded /\ [][C15_Step]_vars

\* after data was loaded and a reset cleared it, a click on the toggle has
\* been reverted
C15_Witness ==
  /\ dialog = "No data" /\ ~useNASA /\ ~neo_loaded
  /\ status = "Reset"

\* --------------------------------------------------------------------- C16
\* the handlers that reset zoom and pan
Resets == {"set_data", "double_click"}
LeftPress == \E p \in Positions : mousePressEvent("left", p)
LeftRelease == mouseReleaseEvent("left")
\* the flag changes only in a left press, which sets it, and in a left
\* release, which clears it
C16_OnlyLeftButton ==
  /\ dragging' # dragging => (LeftPress /\ dragging') \/ (LeftRelease /\ ~dragging')
  /\ LeftPress => dragging'
  /\ LeftRelease => ~dragging'
  /\ (\E p \in Positions : mousePressEvent("right", p)) => dragging' = dragging
  /\ mouseReleaseEvent("right") => dragging' = dragging
\* set_data, double-click, wheel and resize leave the flag as it was
C16_Frame ==
  last_op' \in Resets \cup {"wheel", "resize"} => dragging' = dragging
\* a reset in the middle of a drag leaves pan (0,0) and the drag active
C16_ResetInDrag ==
  dragging /\ last_op' \in Resets =>
     pan_dx' = 0 /\ pan_dy' = 0 /\ dragging' /\ last_pos' = last_pos
\* the move that follows such a reset adds its delta to the pan offset
C16_MoveAfterReset ==
  dragging /\ last_op \in Resets /\ last_op' = "move" =>
     /\ pan_dx = 0 /\ pan_dy = 0
     /\ pan_dx' = last_pos'[1] - last_pos[1]
     /\ pan_dy' = last_pos'[2] - last_pos[2]
     /\ dragging'

\* C16: the drag-active flag is changed only by a left-button press (set) and
\* a left-button release (cleared); set_data, double-click, wheel and resize
\* leave it unchanged, so after a reset (double-click or set_data) in the
\* middle of a drag the pan offset is (0,0), the gesture is still active and
\* the next pointer move adds its delta to the pan offset
C16_DragFlag ==
  [][C16_OnlyLeftButton /\ C16_Frame /\ C16_ResetInDrag /\ C16_MoveAfterReset]_vars

\* a drag that was reset on its way has panned again: the press position is
\* forgotten (the reset), the flag is still set and the last move left a
\* pan offset
C16_Witness ==
  /\ dragging /\ drag_from = NoDrag
  /\ last_op = "move" /\ Pan # <<0, 0>>

====
